---- MODULE Spec2Model ----
(***************************************************************************)
(* The lightning service of app.py: three HTTP GET endpoints               *)
(*   /api/random                  random_number                            *)
(*   /api/kma/lightning-strikes   kma_lightning_simulator                  *)
(*   /api/gmp/lightning-report    gmp_lightning_report                     *)
(* served by Flask's development server (app.run), one thread per request. *)
(*                                                                         *)
(* Numbers.  Degrees are exact fixed-point numbers: one degree is          *)
(* UnitsPerDeg = 111 * 10^6 units, so that 1e-6 degree (111 units, the     *)
(* grid of round(x, 6)) and 1/111 degree (10^6 units, deg_per_km) are both *)
(* whole numbers of units.  TLC's integers are 32 bits wide, so a latitude *)
(* is held as its distance north of 37 degrees and a longitude as its      *)
(* distance east of 126 degrees; the code only ever adds offsets to the    *)
(* coordinates, subtracts them from one another and rounds them to a       *)
(* multiple of 1e-6 degree, and all three commute with this shift by a     *)
(* whole number of degrees.  Squares of distances do not fit 32 bits and   *)
(* are computed exactly in three limbs (Wide numbers).  The rounding error *)
(* of IEEE doubles is not modelled.                                        *)
(***************************************************************************)
EXTENDS Integers, Sequences, FiniteSets, TLC

VARIABLES
    GMP_LATITUDE,           \* module global, app.py:13
    GMP_LONGITUDE,          \* module global, app.py:14
    MONITORING_RADIUS_KM,   \* module global, app.py:15
    req,                    \* the handler thread of every request slot
    point,                  \* radius check alone: the point handed to is_within_radius
    within                  \* radius check alone: what is_within_radius returned

vars == <<GMP_LATITUDE, GMP_LONGITUDE, MONITORING_RADIUS_KM, req, point, within>>
globals == <<GMP_LATITUDE, GMP_LONGITUDE, MONITORING_RADIUS_KM>>

-----------------------------------------------------------------------------
(* Fixed-point degrees *)

UnitsPerDeg == 111 * 1000000
MicroDeg == UnitsPerDeg \div 1000000          \* 1e-6 degree
MilliDeg == UnitsPerDeg \div 1000             \* 1e-3 degree

\* 37.558 and 126.794, as units north of 37 degrees and east of 126 degrees
InitialLatitude == 558 * MilliDeg
InitialLongitude == 794 * MilliDeg

Abs(x) == IF x < 0 THEN -x ELSE x

\* Exact naturals wider than 32 bits: <<h, m, l>> stands for h*Limb^2 + m*Limb + l
Limb == 100 * 100

Normal(h, m, l) ==
    LET m2 == m + (l \div Limb)
    IN  <<h + (m2 \div Limb), m2 % Limb, l % Limb>>

\* x ** 2, for |x| < Limb^2
WideSq(x) ==
    LET a == Abs(x) \div Limb
        b == Abs(x) % Limb
    IN  Normal(a * a, 2 * a * b, b * b)

WideAdd(p, q) == Normal(p[1] + q[1], p[2] + q[2], p[3] + q[3])

WideLess(p, q) ==
    \/ p[1] < q[1]
    \/ p[1] = q[1] /\ p[2] < q[2]
    \/ p[1] = q[1] /\ p[2] = q[2] /\ p[3] < q[3]

WideLeq(p, q) == ~WideLess(q, p)

-----------------------------------------------------------------------------
(* is_within_radius, app.py:17-25 *)

is_within_radius_nonstrict(lat, lon) ==
    LET deg_per_km == UnitsPerDeg \div 111
        radius_in_deg == MONITORING_RADIUS_KM * deg_per_km
        distance_sq == WideAdd(WideSq(lat - GMP_LATITUDE), WideSq(lon - GMP_LONGITUDE))
    IN  WideLeq(distance_sq, WideSq(radius_in_deg))

is_within_radius(lat, lon) ==
    LET deg_per_km == UnitsPerDeg \div 111
        radius_in_deg == MONITORING_RADIUS_KM * deg_per_km
        distance_sq == WideAdd(WideSq(lat - GMP_LATITUDE), WideSq(lon - GMP_LONGITUDE))
    IN  WideLess(distance_sq, WideSq(radius_in_deg))

-----------------------------------------------------------------------------
(* The random module, app.py:4 *)

\* random.randint(a, b): an integer N with a <= N <= b
randint_exclusive(a, b) == a .. (b - 1)

randint(a, b) == a .. b

\* random.uniform(a, b): a number N with a <= N <= b (here a whole number of units)
uniform_wide(a, b) == (a - MilliDeg) .. (b + MilliDeg)

uniform(a, b) == a .. b

\* round(x, 6): the nearest multiple of 1e-6 degree (MicroDeg is odd: no ties)
round6(x) ==
    LET r == x % MicroDeg
    IN  IF 2 * r < MicroDeg THEN x - r ELSE x - r + MicroDeg

-----------------------------------------------------------------------------
(* HTTP bodies and responses.  A body is [kind, value]: kind "object" is a *)
(* JSON object (value holds its members), "array" a JSON array, "text"     *)
(* anything that is not JSON, "none" no body.                              *)

NoBody == [kind |-> "none", value |-> [none |-> TRUE]]
TextBody(t) == [kind |-> "text", value |-> [text |-> t]]
ArrayBody == [kind |-> "array", value |-> [items |-> <<>>]]

\* flask.jsonify(obj), app.py:32,59,88,97
jsonify(obj) == [kind |-> "object", value |-> obj]

NoResponse == [code |-> 0, body |-> NoBody]

\* a view function's return value: `return body` is 200, `return body, code` is code
Response(code, body) == [code |-> code, body |-> body]

\* what Flask answers when a view raises an exception it does not catch
InternalServerError == Response(500, TextBody("Internal Server Error"))

\* the outbound call of a report request (requests.get, app.py:77):
\* state is "none", "sent" (in flight), "served" (being handled by this
\* service), "response" (returned with status and body) or "exception"
NoError == [type |-> "none", status |-> 0]
NoCall == [state |-> "none", status |-> 0, body |-> NoBody, error |-> NoError]

IdleThread ==
    [endpoint |-> "none", pc |-> "idle", calls |-> 0, out |-> NoCall, resp |-> NoResponse]

-----------------------------------------------------------------------------
(* Request slots.  Client c's request is handled by thread c; the request  *)
(* that c's report issues to its own service is handled by thread Inner(c).*)

MaxClients == 2

Inner(c) == c + MaxClients
Threads == 1 .. (2 * MaxClients)

\* app.run(host='0.0.0.0', port=5000), app.py:102: Flask's development
\* server is threaded, every accepted connection gets a thread of its own
ThreadAvailable_single == \A t \in Threads : req[t].pc \in {"idle", "done"}

ThreadAvailable == TRUE

Init ==
    /\ GMP_LATITUDE = InitialLatitude
    /\ GMP_LONGITUDE = InitialLongitude
    /\ MONITORING_RADIUS_KM = 5
    /\ req = [t \in Threads |-> IdleThread]
    /\ point = [lat |-> InitialLatitude, lon |-> InitialLongitude]
    /\ within = [evaluated |-> FALSE, result |-> FALSE]

\* a client's GET arrives and is routed to its view function, app.py:28,37,66
Receive(c, endpoint) ==
    /\ req[c].pc = "idle"
    /\ ThreadAvailable
    /\ endpoint \in {"random", "kma", "report"}
    /\ req' = [req EXCEPT ![c] = [IdleThread EXCEPT !.endpoint = endpoint, !.pc = "start"]]
    /\ UNCHANGED <<globals, point, within>>

\* the client has read the response; the thread ends
Deliver(c) ==
    /\ req[c].pc = "done"
    /\ req' = [req EXCEPT ![c] = IdleThread]
    /\ UNCHANGED <<globals, point, within>>

-----------------------------------------------------------------------------
(* random_number, app.py:28-32; number is what random.randint returned *)

random_number(t, number) ==
    /\ req[t].pc = "start"
    /\ req[t].endpoint = "random"
    /\ number \in randint(1, 99)
    /\ req' = [req EXCEPT ![t].pc = "done",
                          ![t].resp = Response(200, jsonify([number |-> number]))]
    /\ UNCHANGED <<globals, point, within>>

-----------------------------------------------------------------------------
(* kma_lightning_simulator, app.py:37-63.  num_strikes is what             *)
(* random.randint(0, 5) returned and draws[i] holds the four random values *)
(* of the loop's i-th pass.                                                *)

\* app.py:51-56
strike(draw) ==
    [id |-> <<"strike_", draw.id>>,
     latitude |-> round6(GMP_LATITUDE + draw.lat_offset),
     longitude |-> round6(GMP_LONGITUDE + draw.lon_offset),
     intensity_kA |-> draw.intensity]

kma_lightning_simulator(t, num_strikes, draws) ==
    /\ req[t].pc = "start"
    /\ req[t].endpoint = "kma"
    /\ num_strikes \in randint(0, 5)
    /\ Len(draws) = num_strikes
    /\ \A i \in 1 .. num_strikes :
        /\ draws[i].lat_offset \in uniform(-60 * MilliDeg, 60 * MilliDeg)
        /\ draws[i].lon_offset \in uniform(-60 * MilliDeg, 60 * MilliDeg)
        /\ draws[i].id \in randint(1000, 9999)
        /\ draws[i].intensity \in randint(10, 100)
    /\ LET strikes == [i \in 1 .. num_strikes |-> strike(draws[i])]
       IN  req' = [req EXCEPT
                ![t].pc = "done",
                ![t].resp = Response(200, jsonify(
                    [status |-> "success",
                     source |-> "KMA Virtual Lightning Detector",
                     data |-> strikes]))]
    /\ UNCHANGED <<globals, point, within>>

-----------------------------------------------------------------------------
(* gmp_lightning_report, app.py:66-97.  The handler blocks in requests.get *)
(* (app.py:77): ReportCall is the handler up to the call, ReportFinish the *)
(* handler from the call's return or exception to its own return.          *)

\* app.py:74-77: one GET to <host_url>api/kma/lightning-strikes, no timeout
ReportCall(c) ==
    /\ req[c].pc = "start"
    /\ req[c].endpoint = "report"
    /\ req' = [req EXCEPT ![c].pc = "call",
                          ![c].calls = @ + 1,
                          ![c].out = [NoCall EXCEPT !.state = "sent"]]
    /\ UNCHANGED <<globals, point, within>>

\* host_url names this service: the call arrives here as a simulator request
Arrive(c) ==
    /\ req[c].out.state = "sent"
    /\ req[Inner(c)].pc = "idle"
    /\ ThreadAvailable
    /\ req' = [req EXCEPT
            ![c].out.state = "served",
            ![Inner(c)] = [IdleThread EXCEPT !.endpoint = "kma", !.pc = "start"]]
    /\ UNCHANGED <<globals, point, within>>

\* the simulator request has been answered: requests.get returns its response
CallReturns(c) ==
    /\ req[c].out.state = "served"
    /\ req[Inner(c)].pc = "done"
    /\ req' = [req EXCEPT
            ![c].out = [NoCall EXCEPT !.state = "response",
                                      !.status = req[Inner(c)].resp.code,
                                      !.body = req[Inner(c)].resp.body],
            ![Inner(c)] = IdleThread]
    /\ UNCHANGED <<globals, point, within>>

\* host_url names something else (a proxy, another server): requests.get
\* returns whatever that answered
EnvResponse(c, status, body) ==
    /\ req[c].out.state = "sent"
    /\ req' = [req EXCEPT ![c].out = [NoCall EXCEPT !.state = "response",
                                                    !.status = status,
                                                    !.body = body]]
    /\ UNCHANGED <<globals, point, within>>

\* requests.get raises a RequestException (connection refused, reset, ...)
EnvException(c, type) ==
    /\ req[c].out.state = "sent"
    /\ req' = [req EXCEPT ![c].out = [NoCall EXCEPT !.state = "exception",
                                                    !.error = [type |-> type, status |-> 0]]]
    /\ UNCHANGED <<globals, point, within>>

\* Response.raise_for_status(), app.py:78: raises HTTPError for a 4xx or 5xx status
raise_for_status(status) == 400 <= status /\ status < 600

\* dict.get(key, default), app.py:80
get(obj, key, default) == IF key \in DOMAIN obj THEN obj[key] ELSE default

\* a filter that deletes from the list it is walking: the element after a
\* deleted one is skipped
RECURSIVE nearby_skipping(_)
nearby_skipping(all_strikes) ==
    IF all_strikes = <<>> THEN <<>>
    ELSE IF is_within_radius(Head(all_strikes)["latitude"], Head(all_strikes)["longitude"])
         THEN <<Head(all_strikes)>> \o nearby_skipping(Tail(all_strikes))
         ELSE IF Len(all_strikes) = 1 THEN <<>>
              ELSE <<all_strikes[2]>> \o nearby_skipping(Tail(Tail(all_strikes)))

\* the list comprehension of app.py:83-86
RECURSIVE nearby(_)
nearby(all_strikes) ==
    IF all_strikes = <<>> THEN <<>>
    ELSE IF is_within_radius(Head(all_strikes)["latitude"], Head(all_strikes)["longitude"])
         THEN <<Head(all_strikes)>> \o nearby(Tail(all_strikes))
         ELSE nearby(Tail(all_strikes))

\* app.py:97
error_response(e) ==
    Response(500, jsonify([status |-> "error",
                           message |-> <<"Failed to call KMA API: ", e>>]))

\* the same with the count taken of all_strikes
report_of_counting_all(obj) ==
    LET all_strikes == get(obj, "data", <<>>)
    IN  IF \E i \in 1 .. Len(all_strikes) :
               ~({"latitude", "longitude"} \subseteq DOMAIN all_strikes[i])
        THEN InternalServerError
        ELSE LET nearby_strikes == nearby(all_strikes)
             IN  Response(200, jsonify(
                    [status |-> "success",
                     report_for |-> "Gimpo Airport (GMP)",
                     nearby_strikes_count |-> Len(all_strikes),
                     strikes |-> nearby_strikes]))

\* the same with the data read as json()['data']: KeyError when it is missing
report_of_requiring_data(obj) ==
    IF "data" \notin DOMAIN obj THEN InternalServerError
    ELSE LET all_strikes == obj["data"]
         IN  IF \E i \in 1 .. Len(all_strikes) :
                    ~({"latitude", "longitude"} \subseteq DOMAIN all_strikes[i])
             THEN InternalServerError
             ELSE LET nearby_strikes == nearby(all_strikes)
                  IN  Response(200, jsonify(
                         [status |-> "success",
                          report_for |-> "Gimpo Airport (GMP)",
                          nearby_strikes_count |-> Len(nearby_strikes),
                          strikes |-> nearby_strikes]))

\* app.py:80-93, for a body that is a JSON object
report_of(obj) ==
    LET all_strikes == get(obj, "data", <<>>)
    IN  IF \E i \in 1 .. Len(all_strikes) :
               ~({"latitude", "longitude"} \subseteq DOMAIN all_strikes[i])
        THEN InternalServerError    \* KeyError, not a RequestException
        ELSE LET nearby_strikes == nearby(all_strikes)
             IN  Response(200, jsonify(
                    [status |-> "success",
                     report_for |-> "Gimpo Airport (GMP)",
                     nearby_strikes_count |-> Len(nearby_strikes),
                     strikes |-> nearby_strikes]))

\* app.py:77-97, from the outcome of requests.get.  Response.json() raises
\* requests.exceptions.JSONDecodeError, a RequestException, in requests
\* 2.27 and later and a plain ValueError before; the repository pins no
\* version, so decode_error_caught is either.
report_response(out, decode_error_caught) ==
    IF out.state = "exception" THEN error_response(out.error)
    ELSE IF raise_for_status(out.status)
    THEN error_response([type |-> "HTTPError", status |-> out.status])
    ELSE IF out.body.kind \notin {"object", "array"}
    THEN IF decode_error_caught
         THEN error_response([type |-> "JSONDecodeError", status |-> 0])
         ELSE InternalServerError
    ELSE IF out.body.kind = "array"
    THEN InternalServerError        \* AttributeError: a list has no get
    ELSE report_of(out.body.value)

\* the same with one more attempt after a failed call
ReportFinish_retrying(c, decode_error_caught) ==
    /\ req[c].pc = "call"
    /\ req[c].out.state \in {"response", "exception"}
    /\ IF req[c].out.state = "exception" /\ req[c].calls < 2
       THEN req' = [req EXCEPT ![c].calls = @ + 1,
                               ![c].out = [NoCall EXCEPT !.state = "sent"]]
       ELSE req' = [req EXCEPT
                ![c].pc = "done",
                ![c].resp = report_response(req[c].out, decode_error_caught)]
    /\ UNCHANGED <<globals, point, within>>

ReportFinish(c, decode_error_caught) ==
    /\ req[c].pc = "call"
    /\ req[c].out.state \in {"response", "exception"}
    /\ req' = [req EXCEPT
            ![c].pc = "done",
            ![c].resp = report_response(req[c].out, decode_error_caught)]
    /\ UNCHANGED <<globals, point, within>>

-----------------------------------------------------------------------------
(* Inputs.  The next-state relation offers every handler candidate values  *)
(* for what the random module and the network hand it; the handlers' own   *)
(* guards keep those the library calls can return.                         *)

Draw(lat_offset, lon_offset, id, intensity) ==
    [lat_offset |-> lat_offset, lon_offset |-> lon_offset, id |-> id, intensity |-> intensity]

\* two corners of the square of offsets, both outside the radius
DrawNW == Draw(60 * MilliDeg, -60 * MilliDeg, 1000, 10)
DrawSE == Draw(-60 * MilliDeg, 60 * MilliDeg, 9999, 100)
\* rounds down to 37.560 and up to 126.795, inside the radius
DrawNear == Draw(2 * MilliDeg + 50, MilliDeg - 50, 1234, 50)
\* 0.03 degrees south and east, inside the radius
DrawIn == Draw(-30 * MilliDeg, 30 * MilliDeg, 1234, 55)
\* no value random.uniform(-0.06, 0.06) returns
DrawBeyond == Draw(61 * MilliDeg, 0, 1234, 55)

Strike(id, lat_offset, lon_offset, intensity) ==
    [id |-> <<"strike_", id>>,
     latitude |-> InitialLatitude + lat_offset,
     longitude |-> InitialLongitude + lon_offset,
     intensity_kA |-> intensity]

KmPerDegUnits == UnitsPerDeg \div 111       \* one kilometre, in units

StrikeOrigin == Strike(1, 0, 0, 50)
StrikeNear == Strike(2, 2 * MilliDeg, MilliDeg, 50)
StrikeOnRadius == Strike(3, 5 * KmPerDegUnits, 0, 50)
StrikeOnRadius345 == Strike(4, -3 * KmPerDegUnits, 4 * KmPerDegUnits, 50)
StrikeJustInside == Strike(5, 5 * KmPerDegUnits - 1, 0, 50)
StrikeFar == Strike(6, 142 * MilliDeg, 0, 50)
\* a record without latitude
StrikeNoLatitude == [id |-> <<"strike_", 7>>, longitude |-> InitialLongitude, intensity_kA |-> 50]

BodyNoData == jsonify([status |-> "success"])
BodyEmpty == jsonify([status |-> "success", data |-> <<>>])
BodyOne == jsonify([status |-> "success", data |-> <<StrikeNear>>])
BodyMixed ==
    jsonify([status |-> "success",
             data |-> <<StrikeFar, StrikeOnRadius, StrikeOrigin, StrikeJustInside,
                        StrikeOnRadius345, StrikeNear, StrikeOrigin>>])
BodyMalformed == jsonify([status |-> "success", data |-> <<StrikeNear, StrikeNoLatitude>>])
BodyHtml == TextBody("<html>Bad Gateway</html>")

FullInputs ==
    [clients |-> {1},
     numbers |-> 0 .. 100,
     counts |-> 0 .. 6,
     draws |-> {DrawNW, DrawSE, DrawNear, DrawIn, DrawBeyond},
     statuses |-> {200, 204, 300, 404, 503},
     bodies |-> {BodyNoData, BodyEmpty, BodyOne, BodyMixed, BodyMalformed, BodyHtml, ArrayBody},
     errors |-> {"ConnectionError", "Timeout"}]

SmallInputs ==
    [clients |-> 1 .. MaxClients,
     numbers |-> {1, 99},
     counts |-> {0, 2},
     draws |-> {DrawNW, DrawNear},
     statuses |-> {200, 503},
     bodies |-> {BodyNoData, BodyHtml},
     errors |-> {"ConnectionError"}]

NextOver(K) ==
    \E c \in K.clients :
        \/ \E endpoint \in {"random", "kma", "report"} : Receive(c, endpoint)
        \/ Deliver(c)
        \/ \E number \in K.numbers : random_number(c, number)
        \/ \E t \in {c, Inner(c)} : \E num_strikes \in K.counts :
              \E draws \in [1 .. num_strikes -> K.draws] :
                  kma_lightning_simulator(t, num_strikes, draws)
        \/ ReportCall(c)
        \/ Arrive(c)
        \/ CallReturns(c)
        \/ \E status \in K.statuses : \E body \in K.bodies : EnvResponse(c, status, body)
        \/ \E type \in K.errors : EnvException(c, type)
        \/ \E decode_error_caught \in BOOLEAN : ReportFinish(c, decode_error_caught)

\* one client at a time, the full range of inputs
Next == NextOver(FullInputs)
Spec == Init /\ [][Next]_vars

\* concurrent clients, a sample of the inputs
NextConcurrent == NextOver(SmallInputs)
SpecConcurrent == Init /\ [][NextConcurrent]_vars

-----------------------------------------------------------------------------
(* is_within_radius alone: a point is drawn, then the predicate is applied *)

OffsetSamples ==
    {0, 1, MicroDeg, MilliDeg, 2 * MilliDeg,
     KmPerDegUnits, 3 * KmPerDegUnits, 4 * KmPerDegUnits,
     5 * KmPerDegUnits - 1, 5 * KmPerDegUnits, 5 * KmPerDegUnits + 1,
     60 * MilliDeg, 142 * MilliDeg}

Offsets == OffsetSamples \cup {-d : d \in OffsetSamples}

InitRadius ==
    /\ GMP_LATITUDE = InitialLatitude
    /\ GMP_LONGITUDE = InitialLongitude
    /\ MONITORING_RADIUS_KM = 5
    /\ req = [t \in Threads |-> IdleThread]
    /\ point \in [lat : {InitialLatitude + d : d \in Offsets},
                  lon : {InitialLongitude + d : d \in Offsets}]
    /\ within = [evaluated |-> FALSE, result |-> FALSE]

Evaluate ==
    /\ ~within.evaluated
    /\ within' = [evaluated |-> TRUE, result |-> is_within_radius(point.lat, point.lon)]
    /\ UNCHANGED <<globals, req, point>>

NextRadius == Evaluate
SpecRadius == InitRadius /\ [][NextRadius]_vars

-----------------------------------------------------------------------------
(* Properties *)

Reports == {c \in Threads : req[c].endpoint = "report" /\ req[c].pc = "done"}

\* the squared planar distance from (37.558, 126.794) is below (5/111)^2
InsideRadius(lat, lon) ==
    WideLess(WideAdd(WideSq(lat - InitialLatitude), WideSq(lon - InitialLongitude)),
             WideSq(5 * KmPerDegUnits))

StrikeInside(s) == InsideRadius(s["latitude"], s["longitude"])

Is2xx(status) == 200 <= status /\ status < 300

\* the call returned a 2xx response whose body is a JSON object with well-formed records
ReturnedRecords(c) ==
    /\ req[c].out.state = "response"
    /\ Is2xx(req[c].out.status)
    /\ req[c].out.body.kind = "object"
    /\ "data" \in DOMAIN req[c].out.body.value
    /\ \A i \in 1 .. Len(req[c].out.body.value.data) :
          {"latitude", "longitude"} \subseteq DOMAIN req[c].out.body.value.data[i]

IsSuccessReport(resp) ==
    /\ resp.code = 200
    /\ resp.body.kind = "object"
    /\ DOMAIN resp.body.value = {"status", "report_for", "nearby_strikes_count", "strikes"}
    /\ resp.body.value.status = "success"

IsErrorBody(resp) ==
    /\ resp.code = 500
    /\ resp.body.kind = "object"
    /\ DOMAIN resp.body.value = {"status", "message"}
    /\ resp.body.value.status = "error"

\* C1: a report whose outbound call returned a 2xx response carrying strike
\* records answers 200 "success"; strikes is the subsequence of data inside
\* the radius, order and records unchanged, and nearby_strikes_count its length
C1_ReportIsFilteredData ==
    \A c \in Reports : ReturnedRecords(c) =>
        /\ IsSuccessReport(req[c].resp)
        /\ req[c].resp.body.value.strikes = SelectSeq(req[c].out.body.value.data, StrikeInside)
        /\ req[c].resp.body.value.nearby_strikes_count = Len(req[c].resp.body.value.strikes)

C1_Witness ==
    \E c \in Reports :
        /\ ReturnedRecords(c)
        /\ req[c].out.body.value.data = BodyMixed.value.data
        /\ req[c].resp.body.value.nearby_strikes_count = 4

\* C2: is_within_radius(lat, lon) is true exactly when the squared planar
\* distance from (37.558, 126.794) is strictly below (5/111)^2: the origin is
\* inside, (37.700, 126.794) is outside, a point at exactly the radius is outside
C2_RadiusPredicate ==
    within.evaluated =>
        /\ within.result = InsideRadius(point.lat, point.lon)
        /\ (point.lat = InitialLatitude /\ point.lon = InitialLongitude) => within.result
        /\ (point.lat = 700 * MilliDeg /\ point.lon = InitialLongitude) => ~within.result
        /\ ( \/ /\ Abs(point.lat - InitialLatitude) = 5 * KmPerDegUnits
                /\ point.lon = InitialLongitude
             \/ /\ Abs(point.lat - InitialLatitude) = 3 * KmPerDegUnits
                /\ Abs(point.lon - InitialLongitude) = 4 * KmPerDegUnits ) => ~within.result

C2_Witness ==
    /\ within.evaluated
    /\ ~within.result
    /\ point.lat - InitialLatitude = -4 * KmPerDegUnits
    /\ point.lon - InitialLongitude = 3 * KmPerDegUnits

\* the call ended in a transport failure or in a status that is not 2xx
CallFailed(c) ==
    \/ req[c].out.state = "exception"
    \/ req[c].out.state = "response" /\ ~Is2xx(req[c].out.status)

\* the error the message embeds
Embedded(resp) == resp.body.value.message[2]

\* the library version plays no part in the handling of the call's outcome:
\* the body, if there is one, is JSON
VersionFree(c) == req[c].out.body.kind # "text"

\* C3: a report whose outbound call ended in a non-2xx status or a transport
\* failure answers 500 with {status: "error", message} embedding the error,
\* and nothing else (no strikes, no count); stated for the outcomes in which
\* the version of requests plays no part
C3_FailedCallGives500 ==
    \A c \in Reports : (CallFailed(c) /\ VersionFree(c)) =>
        /\ IsErrorBody(req[c].resp)
        /\ req[c].resp.body.value.message[1] = "Failed to call KMA API: "
        /\ req[c].out.state = "exception" => Embedded(req[c].resp) = req[c].out.error
        /\ req[c].out.state = "response" => Embedded(req[c].resp).type # "none"

\* C4: every answer of a report is the 200 success report or the 500 error
\* body; the error body comes only from a non-2xx status or a transport
\* exception; every 2xx response leads to the success report; random_number
\* and kma_lightning_simulator never answer an error; stated for the
\* outcomes in which the version of requests plays no part
C4_OnlyCallFailureIsAnError ==
    \A t \in Threads : (req[t].pc = "done" /\ VersionFree(t)) =>
        IF req[t].endpoint = "report"
        THEN /\ IsSuccessReport(req[t].resp) \/ IsErrorBody(req[t].resp)
             /\ IsErrorBody(req[t].resp) => CallFailed(t)
             /\ (req[t].out.state = "response" /\ Is2xx(req[t].out.status))
                    => IsSuccessReport(req[t].resp)
        ELSE req[t].resp.code = 200

KmaDone == {t \in Threads : req[t].endpoint = "kma" /\ req[t].pc = "done"}

\* C5: the simulator answers status "success" with 0 to 5 records; each has
\* an integer intensity in 10..100 and a latitude and a longitude that are
\* multiples of 1e-6 degree within 0.06 degrees of 37.558 and 126.794
C5_SimulatorRanges ==
    \A t \in KmaDone :
        LET body == req[t].resp.body.value
        IN  /\ req[t].resp.code = 200
            /\ body.status = "success"
            /\ Len(body.data) \in 0 .. 5
            /\ \A i \in 1 .. Len(body.data) :
                  /\ body.data[i].intensity_kA \in 10 .. 100
                  /\ Abs(body.data[i].latitude - InitialLatitude) <= 60 * MilliDeg
                  /\ Abs(body.data[i].longitude - InitialLongitude) <= 60 * MilliDeg
                  /\ body.data[i].latitude % MicroDeg = 0
                  /\ body.data[i].longitude % MicroDeg = 0

\* five records, one on the edge of the offsets' square and one that was rounded
C5_Witness ==
    \E t \in KmaDone :
        LET data == req[t].resp.body.value.data
        IN  /\ Len(data) = 5
            /\ data[1].latitude = InitialLatitude + 60 * MilliDeg
            /\ data[1].intensity_kA = 10
            /\ data[2].longitude = InitialLongitude + 60 * MilliDeg
            /\ data[2].intensity_kA = 100
            /\ data[5] = [StrikeNear EXCEPT !.id = <<"strike_", 1234>>]

RandomDone == {t \in Threads : req[t].endpoint = "random" /\ req[t].pc = "done"}

\* C6: random_number answers 200 with {number: n}, n an integer in 1..99,
\* and every integer in 1..99 is a possible answer
C6_RandomNumberRange ==
    /\ \A t \in RandomDone :
          /\ req[t].resp.code = 200
          /\ req[t].resp.body.kind = "object"
          /\ DOMAIN req[t].resp.body.value = {"number"}
          /\ req[t].resp.body.value.number \in 1 .. 99
    /\ \A t \in Threads : (req[t].endpoint = "random" /\ req[t].pc = "start") =>
          \A n \in 1 .. 99 : ENABLED random_number(t, n)

C6_Witness ==
    \E t \in RandomDone : req[t].resp.body.value.number = 99

\* C7: filtering is idempotent: the radius filter applied to the strikes of
\* a report, or once more to filtered data, gives the same sequence; and a
\* report's filtering leaves the data it received, the origin and the
\* radius as they were
C7_FilterIdempotent ==
    /\ [](\A c \in Reports :
            /\ IsSuccessReport(req[c].resp) =>
                  nearby(req[c].resp.body.value.strikes) = req[c].resp.body.value.strikes
            /\ ReturnedRecords(c) =>
                  nearby(nearby(req[c].out.body.value.data)) = nearby(req[c].out.body.value.data))
    /\ [][/\ globals' = globals
          /\ \A c \in Threads : (req[c].pc = "call" /\ req'[c].pc = "done") =>
                req'[c].out = req[c].out]_vars

\* a report that dropped some records and kept others
C7_Witness ==
    \E c \in Reports :
        /\ ReturnedRecords(c)
        /\ IsSuccessReport(req[c].resp)
        /\ Len(req[c].resp.body.value.strikes) = 2
        /\ Len(req[c].out.body.value.data) = 5

\* C8: a 2xx response whose JSON object has no data member is read as an
\* empty sequence: the report answers 200 "success" with count 0 and no strikes
C8_MissingDataIsEmpty ==
    \A c \in Reports :
        ( /\ req[c].out.state = "response"
          /\ Is2xx(req[c].out.status)
          /\ req[c].out.body.kind = "object"
          /\ "data" \notin DOMAIN req[c].out.body.value ) =>
            /\ IsSuccessReport(req[c].resp)
            /\ req[c].resp.body.value.nearby_strikes_count = 0
            /\ req[c].resp.body.value.strikes = <<>>

C8_Witness ==
    \E c \in Reports :
        /\ req[c].out.state = "response"
        /\ req[c].out.status = 200
        /\ req[c].out.body = BodyNoData
        /\ req[c].resp.code = 200

CallCompleted(c) == req[c].out.state \in {"response", "exception"}

\* C9: a report request issues exactly one outbound call and answers only
\* after it has returned or failed: never a second call, and while the call
\* is in flight the request has no response and cannot produce one
C9_OneCallThenResponse ==
    \A c \in Threads :
        /\ req[c].calls <= 1
        /\ (req[c].endpoint = "report" /\ req[c].pc = "done") =>
              req[c].calls = 1 /\ CallCompleted(c)
        /\ (req[c].endpoint = "report" /\ req[c].resp # NoResponse) => CallCompleted(c)
        /\ req[c].out.state \in {"sent", "served"} =>
              /\ req[c].pc = "call"
              /\ req[c].calls = 1
              /\ req[c].resp = NoResponse
              /\ \A b \in BOOLEAN : ~ENABLED ReportFinish(c, b)

\* the call failed and the request answered without calling again
C9_Witness ==
    \E c \in Reports :
        /\ req[c].out.state = "exception"
        /\ req[c].calls = 1
        /\ IsErrorBody(req[c].resp)

Clients == 1 .. MaxClients

\* the next step of thread t's own handler is possible
CanProceed(t) ==
    CASE req[t].pc = "start" /\ req[t].endpoint = "random" -> ENABLED random_number(t, 1)
      [] req[t].pc = "start" /\ req[t].endpoint = "kma" ->
            ENABLED kma_lightning_simulator(t, 0, <<>>)
      [] req[t].pc = "start" /\ req[t].endpoint = "report" -> ENABLED ReportCall(t)
      [] req[t].pc = "call" /\ CallCompleted(t) -> ENABLED ReportFinish(t, TRUE)
      [] OTHER -> TRUE

====
